---- MODULE Spec2Model ----
(***************************************************************************)
(* Model of src/init.cpp of the thoth package: the static routine table    *)
(* CallEntries and the load hook R_init_toth, together with the part of    *)
(* the host interpreter (R's dynamic-loading subsystem) the hook talks to: *)
(* one DllInfo per loaded library, R_registerRoutines, R_useDynamicSymbols *)
(* and the symbol resolution R_dlsym.                                      *)
(*                                                                         *)
(* Pointers are strings: "NULL" is the null pointer, "CallEntries" is the  *)
(* address of the static array, a function's address is its symbol name.   *)
(* A DllInfo* is a number: 0 is the null handle, 1..MaxDlls are the        *)
(* DllInfo objects the host owns.                                          *)
(***************************************************************************)
EXTENDS Integers, Sequences, FiniteSets

\* ---- bounds of the model ------------------------------------------------
MaxDlls == 2
MaxInvocations == 2

\* ---- values --------------------------------------------------------------
NULL == "NULL"

NULLDLL == 0

DllInfos == 1..MaxDlls

HookArgs == DllInfos \cup {NULLDLL}

\* Symbol names the interpreter tries to resolve in the library: the one
\* function the object file exports, and the name of its static table.
Names == {"R_init_toth", "CallEntries"}

\* Statuses the host's registration function may hand back (int).
StatusValues == {0, 1}

\* ---- the library image (init.cpp) -----------------------------------------
\* The descriptor {NULL, NULL, 0}.
Sentinel == [name |-> NULL, fun |-> NULL, numArgs |-> 0]

\* A table with an all-null descriptor in front of a real one.
CallEntriesEarlyNull ==
  << Sentinel, [name |-> "thoth_run", fun |-> "thoth_run", numArgs |-> 1], Sentinel >>

\* static const R_CallMethodDef CallEntries[] = { {NULL, NULL, 0} };
CallEntries == << Sentinel >>

\* Symbols with external linkage in the object file: CallEntries is static,
\* R_init_toth is the only function defined, inside extern "C".
ExportedSymbols == {"R_init_toth"}

VARIABLES
  tableMem,           \* contents of the static array at address "CallEntries"
  loaded,             \* DllInfo objects of libraries currently loaded
  useDynamicSymbols,  \* DllInfo -> the host's "allow dynamic lookup" flag
  CallSymbols,        \* DllInfo -> the .Call routines the host has registered
  pc,                 \* 0: no hook running; i: statement i of the hook is next
  dll,                \* the argument of the running (or last) hook invocation
  calls,              \* handle -> host calls the hook made with it since load
  status,             \* handle -> last status R_registerRoutines returned
  result,             \* handle -> outcome of the latest hook invocation
  ncalls,             \* handle -> hook invocations since load
  snapshots,          \* DllInfo -> host state at each return of the hook
  lastLookup          \* the last symbol resolution the interpreter did

vars == << tableMem, loaded, useDynamicSymbols, CallSymbols, pc, dll, calls,
           status, result, ncalls, snapshots, lastLookup >>

\* ---- the host: table scan and registration --------------------------------
\* for(num = 0; callRoutines[num].name != NULL; num++) {;}
\* A table without a null name is read past its end; the count is then
\* whatever follows the array, which the model leaves at its length.
NumRoutines(tbl) ==
  IF \E i \in 1..Len(tbl) : tbl[i].name = NULL
  THEN (CHOOSE i \in 1..Len(tbl) :
          /\ tbl[i].name = NULL
          /\ \A j \in 1..(i-1) : tbl[j].name # NULL) - 1
  ELSE Len(tbl)

\* The object a table pointer points to.
Deref(ptr) == tableMem

\* The host copies the descriptors in front of the sentinel.
RegisteredOf(tbl) == [i \in 1..NumRoutines(tbl) |-> tbl[i]]

\* The host state of one DllInfo.
HostState(d) == [dyn |-> useDynamicSymbols[d], syms |-> CallSymbols[d]]

\* R_registerRoutines(info, croutines, callRoutines, fortranRoutines,
\* externalRoutines) on an accepted table: lookup of unregistered names is
\* reset to the default (dynamic, as the library has a handle), and the
\* .Call table, when given, replaces the registered .Call routines.
R_registerRoutines(call) ==
  [dyn  |-> TRUE,
   syms |-> IF call.callRoutines # NULL
            THEN RegisteredOf(Deref(call.callRoutines))
            ELSE CallSymbols[call.info]]

\* R_useDynamicSymbols(info, value): sets the flag.
R_useDynamicSymbols(call) ==
  [dyn |-> call.value, syms |-> CallSymbols[call.info]]

\* ---- the host: symbol resolution ------------------------------------------
NotFound == [found |-> FALSE, fun |-> NULL, numArgs |-> 0, via |-> "none"]

\* R_getDLLRegisteredSymbol: the registered .Call routines are searched by
\* name.
R_getDLLRegisteredSymbol(d, name) ==
  IF \E i \in 1..Len(CallSymbols[d]) : CallSymbols[d][i].name = name
  THEN LET i == CHOOSE k \in 1..Len(CallSymbols[d]) :
                  /\ CallSymbols[d][k].name = name
                  /\ \A j \in 1..(k-1) : CallSymbols[d][j].name # name
       IN [found |-> TRUE, fun |-> CallSymbols[d][i].fun,
           numArgs |-> CallSymbols[d][i].numArgs, via |-> "registered"]
  ELSE NotFound

\* R_dlsym: registered routines first; then, only if the flag allows it, the
\* library's own (linker) symbol table.
R_dlsym(d, name) ==
  LET r == R_getDLLRegisteredSymbol(d, name) IN
  IF r.found THEN r
  ELSE IF useDynamicSymbols[d] /\ name \in ExportedSymbols
       THEN [found |-> TRUE, fun |-> name, numArgs |-> -1, via |-> "dynamic"]
       ELSE NotFound

\* The routines of library d the interpreter can call by name.
Callable(d) == {n \in Names : R_dlsym(d, n).found}

\* ---- the hook (init.cpp, R_init_toth) -------------------------------------
\* The registration call with the table in the slot of the .C routines.
RegisterCallAsC(h) ==
  [fn |-> "R_registerRoutines", info |-> h, croutines |-> "CallEntries",
   callRoutines |-> NULL, fortranRoutines |-> NULL,
   externalRoutines |-> NULL, value |-> FALSE]

\* The registration call with a null handle instead of the hook's argument.
RegisterCallNullInfo(h) ==
  [fn |-> "R_registerRoutines", info |-> NULLDLL, croutines |-> NULL,
   callRoutines |-> "CallEntries", fortranRoutines |-> NULL,
   externalRoutines |-> NULL, value |-> FALSE]

\* R_registerRoutines(dll, NULL, CallEntries, NULL, NULL);
RegisterCall(h) ==
  [fn |-> "R_registerRoutines", info |-> h, croutines |-> NULL,
   callRoutines |-> "CallEntries", fortranRoutines |-> NULL,
   externalRoutines |-> NULL, value |-> FALSE]

\* The flag call with TRUE as its value.
UseDynamicCallTrue(h) ==
  [fn |-> "R_useDynamicSymbols", info |-> h, croutines |-> NULL,
   callRoutines |-> NULL, fortranRoutines |-> NULL,
   externalRoutines |-> NULL, value |-> TRUE]

\* The flag call with the negation of the current flag as its value.
UseDynamicCallToggle(h) ==
  [fn |-> "R_useDynamicSymbols", info |-> h, croutines |-> NULL,
   callRoutines |-> NULL, fortranRoutines |-> NULL,
   externalRoutines |-> NULL,
   value |-> IF h \in DllInfos THEN ~useDynamicSymbols[h] ELSE FALSE]

\* R_useDynamicSymbols(dll, FALSE);
UseDynamicCall(h) ==
  [fn |-> "R_useDynamicSymbols", info |-> h, croutines |-> NULL,
   callRoutines |-> NULL, fortranRoutines |-> NULL,
   externalRoutines |-> NULL, value |-> FALSE]

\* The body of a hook that disables dynamic lookup before registering.
R_init_toth_Swapped(h) == << UseDynamicCall(h), RegisterCall(h) >>

\* The body of a hook that forgets to disable dynamic lookup.
R_init_toth_NoDisable(h) == << RegisterCall(h) >>

\* The body of a hook that registers a second time after disabling lookup.
R_init_toth_Again(h) == << RegisterCall(h), UseDynamicCall(h), RegisterCall(h) >>

\* void R_init_toth(DllInfo *dll): the statements of the body, in order.
R_init_toth(h) == << RegisterCall(h), UseDynamicCall(h) >>

\* ---- initial state: nothing loaded ----------------------------------------
NoLookup == [dll |-> NULLDLL, name |-> NULL, res |-> NotFound]

Init ==
  /\ tableMem = CallEntries
  /\ loaded = {}
  /\ useDynamicSymbols = [d \in DllInfos |-> FALSE]
  /\ CallSymbols = [d \in DllInfos |-> << >>]
  /\ pc = 0
  /\ dll = NULLDLL
  /\ calls = [h \in HookArgs |-> << >>]
  /\ status = [h \in HookArgs |-> -1]
  /\ result = [h \in HookArgs |-> "none"]
  /\ ncalls = [h \in HookArgs |-> 0]
  /\ snapshots = [h \in HookArgs |-> << >>]
  /\ lastLookup = NoLookup

\* The process is alive as long as no hook invocation has crashed it.
Alive == \A h \in HookArgs : result[h] # "crashed"

\* ---- the steps of the hook ------------------------------------------------
\* The statement after the current one, or the return of the hook; new is the
\* host state of the handle after the current statement.
Advance(new) ==
  IF pc = Len(R_init_toth(dll))
  THEN /\ pc' = 0
       /\ result' = [result EXCEPT ![dll] = "returned"]
       /\ snapshots' = [snapshots EXCEPT ![dll] = Append(@, new)]
  ELSE /\ pc' = pc + 1
       /\ UNCHANGED << result, snapshots >>

\* A hook that treats a zero status as a failure of its own.
HookRegisterChecked ==
  /\ Alive
  /\ pc >= 1
  /\ LET call == R_init_toth(dll)[pc] IN
     /\ call.fn = "R_registerRoutines"
     /\ calls' = [calls EXCEPT ![dll] = Append(@, call)]
     /\ IF call.info = NULLDLL
        THEN /\ pc' = 0
             /\ result' = [result EXCEPT ![dll] = "error"]
             /\ UNCHANGED << useDynamicSymbols, CallSymbols, status, snapshots >>
        ELSE \E st \in StatusValues :
               LET new == IF st = 1 THEN R_registerRoutines(call)
                          ELSE HostState(call.info) IN
               /\ status' = [status EXCEPT ![dll] = st]
               /\ useDynamicSymbols' = [useDynamicSymbols EXCEPT ![call.info] = new.dyn]
               /\ CallSymbols' = [CallSymbols EXCEPT ![call.info] = new.syms]
               /\ IF st = 0
                  THEN /\ pc' = 0
                       /\ result' = [result EXCEPT ![dll] = "error"]
                       /\ UNCHANGED snapshots
                  ELSE Advance(new)
  /\ UNCHANGED << tableMem, loaded, dll, ncalls, lastLookup >>

\* Line 14: R_registerRoutines(dll, NULL, CallEntries, NULL, NULL); the int
\* it returns is discarded.  The host raises an error (a non-local exit out
\* of the hook) for a null handle; otherwise it returns a status, and a
\* rejected table (status 0) leaves the DllInfo as it was.
HookRegister ==
  /\ Alive
  /\ pc >= 1
  /\ LET call == R_init_toth(dll)[pc] IN
     /\ call.fn = "R_registerRoutines"
     /\ calls' = [calls EXCEPT ![dll] = Append(@, call)]
     /\ IF call.info = NULLDLL
        THEN /\ pc' = 0
             /\ result' = [result EXCEPT ![dll] = "error"]
             /\ UNCHANGED << useDynamicSymbols, CallSymbols, status, snapshots >>
        ELSE \E st \in StatusValues :
               LET new == IF st = 1 THEN R_registerRoutines(call)
                          ELSE HostState(call.info) IN
               /\ status' = [status EXCEPT ![dll] = st]
               /\ useDynamicSymbols' = [useDynamicSymbols EXCEPT ![call.info] = new.dyn]
               /\ CallSymbols' = [CallSymbols EXCEPT ![call.info] = new.syms]
               /\ Advance(new)
  /\ UNCHANGED << tableMem, loaded, dll, ncalls, lastLookup >>

\* Line 15: R_useDynamicSymbols(dll, FALSE); the old flag it returns is
\* discarded.  The host dereferences the handle without a check, so a null
\* handle ends the process.
HookUseDynamic ==
  /\ Alive
  /\ pc >= 1
  /\ LET call == R_init_toth(dll)[pc] IN
     /\ call.fn = "R_useDynamicSymbols"
     /\ calls' = [calls EXCEPT ![dll] = Append(@, call)]
     /\ IF call.info = NULLDLL
        THEN /\ pc' = 0
             /\ result' = [result EXCEPT ![dll] = "crashed"]
             /\ UNCHANGED << useDynamicSymbols, CallSymbols, snapshots >>
        ELSE LET new == R_useDynamicSymbols(call) IN
             /\ useDynamicSymbols' = [useDynamicSymbols EXCEPT ![call.info] = new.dyn]
             /\ CallSymbols' = [CallSymbols EXCEPT ![call.info] = new.syms]
             /\ Advance(new)
  /\ UNCHANGED << tableMem, loaded, dll, status, ncalls, lastLookup >>

\* ---- the host interpreter -------------------------------------------------
\* The host loads the library: a fresh DllInfo (dynamic lookup allowed,
\* nothing registered), then the load hook is entered with it.
Load(d) ==
  /\ Alive
  /\ pc = 0
  /\ d \notin loaded
  /\ loaded' = loaded \cup {d}
  /\ useDynamicSymbols' = [useDynamicSymbols EXCEPT ![d] = TRUE]
  /\ CallSymbols' = [CallSymbols EXCEPT ![d] = << >>]
  /\ pc' = 1
  /\ dll' = d
  /\ calls' = [calls EXCEPT ![d] = << >>]
  /\ status' = [status EXCEPT ![d] = -1]
  /\ result' = [result EXCEPT ![d] = "running"]
  /\ ncalls' = [ncalls EXCEPT ![d] = 1]
  /\ snapshots' = [snapshots EXCEPT ![d] = << >>]
  /\ UNCHANGED << tableMem, lastLookup >>

\* Interpreted code names a native symbol of a loaded library (.Call by
\* name); the interpreter runs nothing else while a hook is running.
Lookup(d, n) ==
  /\ Alive
  /\ pc = 0
  /\ d \in loaded
  /\ lastLookup' = [dll |-> d, name |-> n, res |-> R_dlsym(d, n)]
  /\ UNCHANGED << tableMem, loaded, useDynamicSymbols, CallSymbols, pc, dll,
                  calls, status, result, ncalls, snapshots >>

\* The host unloads the library and discards its DllInfo.
Unload(d) ==
  /\ Alive
  /\ pc = 0
  /\ d \in loaded
  /\ loaded' = loaded \ {d}
  /\ useDynamicSymbols' = [useDynamicSymbols EXCEPT ![d] = FALSE]
  /\ CallSymbols' = [CallSymbols EXCEPT ![d] = << >>]
  /\ calls' = [calls EXCEPT ![d] = << >>]
  /\ status' = [status EXCEPT ![d] = -1]
  /\ result' = [result EXCEPT ![d] = "none"]
  /\ ncalls' = [ncalls EXCEPT ![d] = 0]
  /\ snapshots' = [snapshots EXCEPT ![d] = << >>]
  /\ UNCHANGED << tableMem, pc, dll, lastLookup >>

\* A caller other than the loader (a test harness) enters the hook directly,
\* with the handle of a loaded library or with a null handle.
CallHook(h) ==
  /\ Alive
  /\ pc = 0
  /\ h \in loaded \cup {NULLDLL}
  /\ ncalls[h] < MaxInvocations
  /\ pc' = 1
  /\ dll' = h
  /\ result' = [result EXCEPT ![h] = "running"]
  /\ ncalls' = [ncalls EXCEPT ![h] = @ + 1]
  /\ UNCHANGED << tableMem, loaded, useDynamicSymbols, CallSymbols, calls,
                  status, snapshots, lastLookup >>

\* ---- specifications -------------------------------------------------------
\* The host's extension ABI: the hook is entered once per load, by the loader.
Next ==
  \/ \E d \in DllInfos : Load(d)
  \/ HookRegister
  \/ HookUseDynamic
  \/ \E d \in DllInfos, n \in Names : Lookup(d, n)
  \/ \E d \in DllInfos : Unload(d)

Spec == Init /\ [][Next]_vars

\* The same, with direct invocations of the hook; a hook that has been
\* entered runs to completion.
NextDirect ==
  \/ \E d \in DllInfos : Load(d)
  \/ HookRegister
  \/ HookUseDynamic
  \/ \E d \in DllInfos, n \in Names : Lookup(d, n)
  \/ \E d \in DllInfos : Unload(d)
  \/ \E h \in HookArgs : CallHook(h)

SpecDirect ==
  Init /\ [][NextDirect]_vars /\ WF_vars(HookRegister) /\ WF_vars(HookUseDynamic)

TypeOK ==
  /\ loaded \subseteq DllInfos
  /\ pc \in 0..2
  /\ dll \in HookArgs
  /\ \A h \in HookArgs : result[h] \in {"none", "running", "returned", "error", "crashed"}

\* ---- properties -----------------------------------------------------------
\* The names of the descriptors in front of the sentinel.
TableNames(tbl) == {tbl[i].name : i \in 1..NumRoutines(tbl)}

\* The hook has run for d and returned.
Registered(d) == d \in loaded /\ result[d] = "returned"

\* The host state of a fresh DllInfo, and the one the hook leaves.
FreshState == [dyn |-> TRUE, syms |-> << >>]

RegisteredState == [dyn |-> FALSE, syms |-> RegisteredOf(CallEntries)]

\* C1: once the hook has returned for a library, the routines the host can
\* call by name in it are exactly the descriptors of CallEntries in front of
\* the sentinel, and that set is empty.
C1_CallableIsTable ==
  \A d \in DllInfos :
    Registered(d) => /\ Callable(d) = TableNames(CallEntries)
                     /\ Callable(d) = {}

C1_Witness ==
  \E d \in DllInfos : Registered(d) /\ pc = 0 /\ Callable(d) = {}

\* C2: every resolution of a name that is not in the registered table, done
\* after the hook has run, ends "not found"; the table being empty, every
\* resolution does.
C2_UnregisteredNotFound ==
  lastLookup.dll \in DllInfos =>
    /\ lastLookup.name \notin TableNames(CallEntries) => lastLookup.res = NotFound
    /\ ~lastLookup.res.found

C2_Witness ==
  /\ lastLookup.dll \in DllInfos
  /\ lastLookup.name = "R_init_toth"
  /\ lastLookup.res = NotFound

\* C3: in every state the table in memory is the compile-time CallEntries,
\* its last descriptor is the sentinel, no all-null descriptor stands in
\* front of the last position, and the host's scan to the first sentinel
\* covers the whole table.
C3_TableTerminated ==
  /\ tableMem = CallEntries
  /\ Len(tableMem) >= 1
  /\ tableMem[Len(tableMem)] = Sentinel
  /\ \A i \in 1..(Len(tableMem) - 1) : tableMem[i] # Sentinel
  /\ NumRoutines(tableMem) = Len(tableMem) - 1

C3_Witness ==
  /\ pc = 2
  /\ dll \in loaded
  /\ tableMem = << Sentinel >>
  /\ \E d \in loaded : Registered(d)

\* C4: per load the host state of the library changes exactly once, from the
\* fresh state to the registered one, and only while the hook runs on that
\* handle; the hook is entered once; once registered the library stays
\* registered with the same host state until it is unloaded.
C4_MutatedOnce ==
  [][\A d \in DllInfos :
       /\ (Registered(d) /\ d \in loaded') =>
            /\ result'[d] = "returned"
            /\ HostState(d)' = HostState(d)
            /\ ncalls'[d] = ncalls[d]
       /\ (d \in loaded /\ d \in loaded' /\ HostState(d)' # HostState(d)) =>
            /\ pc >= 1 /\ dll = d
            /\ HostState(d) = FreshState
            /\ HostState(d)' = RegisteredState
       /\ (result[d] = "running" /\ result'[d] = "returned") =>
            HostState(d)' = RegisteredState
       /\ ncalls'[d] <= 1
    ]_vars

C4_Witness ==
  \E d \in DllInfos :
    /\ Registered(d)
    /\ ncalls[d] = 1
    /\ HostState(d) = RegisteredState
    /\ lastLookup.dll = d

\* C5: the hook entered with handle h calls the registration function with
\* h, with CallEntries (the sentinel alone) as the .Call table and null for
\* the three other tables, and sets the dynamic-lookup flag of h to false.
C5_CallArguments ==
  \A h \in DllInfos :
    /\ \A i \in 1..Len(calls[h]) :
         calls[h][i].fn = "R_registerRoutines" =>
           /\ calls[h][i].info = h
           /\ calls[h][i].callRoutines = "CallEntries"
           /\ Deref(calls[h][i].callRoutines) = << Sentinel >>
           /\ calls[h][i].croutines = NULL
           /\ calls[h][i].fortranRoutines = NULL
           /\ calls[h][i].externalRoutines = NULL
    /\ Registered(h) =>
         /\ \E i \in 1..Len(calls[h]) : calls[h][i].fn = "R_registerRoutines"
         /\ \E i \in 1..Len(calls[h]) :
              /\ calls[h][i].fn = "R_useDynamicSymbols"
              /\ calls[h][i].info = h
              /\ calls[h][i].value = FALSE
         /\ useDynamicSymbols[h] = FALSE

C5_Witness ==
  \E h \in DllInfos :
    /\ Registered(h)
    /\ Len(calls[h]) = 2
    /\ calls[h][1].callRoutines = "CallEntries"
    /\ calls[h][2].value = FALSE

\* C6: a hook entered with a valid handle always comes to a normal return
\* (it neither raises an error nor stops before returning).
C6_ValidHandleReturns ==
  \A h \in DllInfos : (result[h] = "running") ~> (result[h] = "returned")

C6_Witness ==
  /\ result[NULLDLL] = "error"
  /\ \E h \in DllInfos : result[h] = "returned" /\ ncalls[h] = 2

\* C7: after the hook has run, each descriptor (N, P, A) in front of the
\* sentinel resolves by name N to P with arity A through the registered
\* path; the table holding the sentinel alone, no name resolves.
C7_RoundTrip ==
  \A d \in DllInfos :
    Registered(d) =>
      /\ \A i \in 1..NumRoutines(CallEntries) :
           R_dlsym(d, CallEntries[i].name) =
             [found |-> TRUE, fun |-> CallEntries[i].fun,
              numArgs |-> CallEntries[i].numArgs, via |-> "registered"]
      /\ NumRoutines(CallEntries) = 0 =>
           \A n \in Names : R_dlsym(d, n) = NotFound

C7_Witness ==
  \E d \in DllInfos :
    /\ Registered(d)
    /\ status[d] = 1
    /\ CallSymbols[d] = << >>
    /\ \A n \in Names : R_dlsym(d, n) = NotFound

\* C8: the host state of a handle after a second (or later) invocation of
\* the hook equals its host state after the first.
C8_Idempotent ==
  \A d \in DllInfos :
    \A i \in 1..Len(snapshots[d]) : snapshots[d][i] = snapshots[d][1]

C8_Witness ==
  \E d \in DllInfos : Len(snapshots[d]) = 2 /\ ncalls[d] = 2 /\ pc = 0

\* C9: in one invocation the registration call comes first and the call
\* that disables dynamic lookup second, each once and with the hook's handle;
\* dynamic lookup is never disabled for a loaded library whose table has not
\* been handed to the host.
C9_RegisterBeforeDisable ==
  \A d \in DllInfos :
    LET c == calls[d] IN
    /\ Len(c) <= 2
    /\ Len(c) >= 1 => c[1].fn = "R_registerRoutines" /\ c[1].info = d
    /\ Len(c) = 2 => c[2].fn = "R_useDynamicSymbols" /\ c[2].info = d
    /\ Registered(d) => Len(c) = 2
    /\ (d \in loaded /\ useDynamicSymbols[d] = FALSE) =>
         \E i \in 1..Len(c) : c[i].fn = "R_registerRoutines"

C9_Witness ==
  \E d \in DllInfos :
    /\ pc = 2
    /\ dll = d
    /\ Len(calls[d]) = 1
    /\ useDynamicSymbols[d] = TRUE

\* C10: whatever status the registration call returned, the hook goes on to
\* disable dynamic lookup and returns normally.
C10_StatusIgnored ==
  \A d \in DllInfos :
    status[d] \in StatusValues =>
      /\ result[d] \in {"running", "returned"}
      /\ result[d] = "running" => (pc = 2 /\ dll = d)
      /\ result[d] = "returned" =>
           /\ useDynamicSymbols[d] = FALSE
           /\ calls[d][Len(calls[d])].fn = "R_useDynamicSymbols"

C10_Witness ==
  \E d \in DllInfos :
    /\ status[d] = 0
    /\ result[d] = "returned"
    /\ useDynamicSymbols[d] = FALSE
====
